---- MODULE Spec2Model ----
(***************************************************************************)
(* Model of the log-structured engine of src/src/engine/kvs.rs (KvStore).  *)
(*                                                                         *)
(* Files are sequences of tokens with true byte lengths: a token is a      *)
(* serialized Set command, a serialized Remove command, a run of           *)
(* whitespace ("\r\n") or a fragment of a record ("junk").  Offsets and    *)
(* Pointers are byte numbers.  The file system is POSIX: remove_file       *)
(* unlinks the name, and a file that is still open stays readable and      *)
(* writable through the handles that hold it.                              *)
(***************************************************************************)
EXTENDS Integers, Sequences, FiniteSets, TLC

VARIABLES
    pc,           \* "closed", "idle", or the statement of compact() about to run
    log,          \* the file at self.path (<dir>/log.json)
    tmp,          \* the file at <cwd>/compacted_log.json
    orphan,       \* bytes of the unlinked file the engine's handles still hold
    bound,        \* "path": self.writer/self.reader hold the file at self.path; "orphan": an unlinked one
    index,        \* self.index: key -> Pointer
    uncompacted,  \* self.uncompacted
    wbuf,         \* bytes buffered in writer_temp_file
    ret,          \* the last call and what it returned
    lastSet,      \* per key: the value of the last set that returned Ok on this instance, not since set/removed
    hist,         \* per key: the most recent successful mutation on the store, with its value
    nops,         \* appends made so far
    faults,       \* I/O failures and crashes injected so far
    cpc,          \* KvsClient: "idle", or the statement of the call about to run: "flush", "read"
    conn,         \* the TcpStream: "open" or "broken"
    cbuf,         \* requests buffered in KvsClient.writer
    c2s,          \* requests on the wire, client to server
    s2c,          \* responses on the wire, server to client
    creq,         \* the Request of the client call in progress (or of the last one)
    cret,         \* what the last client call returned
    ncalls        \* client calls started so far

evars == <<pc, log, tmp, orphan, bound, index, uncompacted, wbuf, ret,
           lastSet, hist, nops, faults>>

cvars == <<cpc, conn, cbuf, c2s, s2c, creq, cret, ncalls>>

vars == <<evars, cvars>>

----------------------------------------------------------------------------
(* Bounds and inputs *)

MaxOps == 3
MaxFaults == 1

COMPACT_BYTES == 1024

RECURSIVE Rep(_, _)
Rep(s, n) ==
    IF n = 0 THEN ""
    ELSE LET half == Rep(s, n \div 2) IN
         half \o half \o (IF n % 2 = 1 THEN s ELSE "")

\* A 959-byte value: its Set record is 991 bytes, so a 33-byte record plus
\* this one ends exactly at offset 1024.
Big == Rep("x", 959)

KeyOrder == <<"a", "b">>
Keys == {KeyOrder[i] : i \in DOMAIN KeyOrder}
Values == {"1", Big}

----------------------------------------------------------------------------
(* Command model and serialization *)

SetCmd(key, value) == [t |-> "set", key |-> key, val |-> value]
RemoveCmd(key) == [t |-> "rm", key |-> key, val |-> ""]

\* serde_json's externally tagged encoding of Command
ToJson(cmd) ==
    IF cmd.t = "set"
    THEN "{\"Set\":{\"key\":\"" \o cmd.key \o "\",\"value\":\"" \o cmd.val \o "\"}}"
    ELSE "{\"Remove\":{\"key\":\"" \o cmd.key \o "\"}}"

\* the bytes serde_json::to_writer emits for cmd, as one token
to_writer(cmd) == [t |-> cmd.t, key |-> cmd.key, val |-> cmd.val, n |-> Len(ToJson(cmd))]

Ws(n) == [t |-> "ws", key |-> "", val |-> "", n |-> n]
Junk(n) == [t |-> "junk", key |-> "", val |-> "", n |-> n]
CRLF == Ws(Len("\r\n"))

NoFile == [exists |-> FALSE, data |-> <<>>]
File(d) == [exists |-> TRUE, data |-> d]

RECURSIVE ByteLen(_)
ByteLen(d) == IF d = <<>> THEN 0 ELSE Head(d).n + ByteLen(Tail(d))

\* a piece of n bytes cut out of token tok: whitespace stays whitespace, a
\* fragment of a record decodes to nothing
Piece(tok, n) == IF n = tok.n THEN tok ELSE IF tok.t = "ws" THEN Ws(n) ELSE Junk(n)

\* the bytes [pos, pos + len) of d (fewer when d ends earlier)
RECURSIVE ReadRange(_, _, _)
ReadRange(d, pos, len) ==
    IF d = <<>> \/ len <= 0 THEN <<>>
    ELSE LET h == Head(d) IN
         IF pos >= h.n THEN ReadRange(Tail(d), pos - h.n, len)
         ELSE LET take == IF h.n - pos < len THEN h.n - pos ELSE len IN
              <<Piece(h, take)>> \o ReadRange(Tail(d), 0, len - take)

\* writing new at offset 0 of a file holding old, without truncating it
Overwrite(old, new) ==
    new \o ReadRange(old, ByteLen(new), ByteLen(old) - ByteLen(new))

RECURSIVE SkipWs(_)
SkipWs(d) == IF d # <<>> /\ Head(d).t = "ws" THEN SkipWs(Tail(d)) ELSE d

\* serde_json::from_reader::<Command>: leading whitespace, one value, then
\* only whitespace up to the end of the input
from_reader(d) ==
    LET r == SkipWs(d) IN
    IF r = <<>> \/ Head(r).t = "junk" THEN [t |-> "err", key |-> "", val |-> ""]
    ELSE IF SkipWs(Tail(r)) # <<>> THEN [t |-> "err", key |-> "", val |-> ""]
    ELSE [t |-> Head(r).t, key |-> Head(r).key, val |-> Head(r).val]

----------------------------------------------------------------------------
(* Index *)

Pointer(start, end) == [pos |-> start, len |-> end - start]

NoIndex == [k \in {} |-> Pointer(0, 0)]
\* a slip: an existing entry is kept (entry().or_insert) instead of replaced
IndexInsertKeepOld(idx, key, p) ==
    IF key \in DOMAIN idx THEN idx
    ELSE [k \in DOMAIN idx \cup {key} |-> IF k = key THEN p ELSE idx[k]]

IndexInsert(idx, key, p) ==
    [k \in DOMAIN idx \cup {key} |-> IF k = key THEN p ELSE idx[k]]
IndexRemove(idx, key) == [k \in DOMAIN idx \ {key} |-> idx[k]]

----------------------------------------------------------------------------
(* Engine state *)

\* a slip: the handles follow the name self.path instead of the file they opened
HandleDataByPath == log.data

\* the bytes of the file self.writer and self.reader are bound to
HandleData == IF bound = "path" THEN log.data ELSE orphan

NoCall == [op |-> "none", key |-> "", val |-> <<>>, res |-> "Ok", compact |-> FALSE]
Call(op, key, val, res, compact) ==
    [op |-> op, key |-> key, val |-> val, res |-> res, compact |-> compact]

NoSets == [k \in Keys |-> <<>>]
NoHist == [k \in Keys |-> <<"never">>]

InCompaction ==
    pc \in {"compact_create", "compact_copy", "compact_flush", "compact_remove", "compact_rename"}

\* KvStore::read_file: replay of the log d into (index, uncompacted); cur is
\* the byte offset of Head(d), initial_offset the end of the previous command
RECURSIVE Replay(_, _, _, _, _)
Replay(d, idx, unc, initial_offset, cur) ==
    IF d = <<>> THEN [ok |-> TRUE, index |-> idx, uncompacted |-> unc]
    ELSE LET h == Head(d)
             new_offset == cur + h.n
         IN CASE h.t = "ws" -> Replay(Tail(d), idx, unc, initial_offset, new_offset)
              [] h.t = "junk" -> [ok |-> FALSE, index |-> idx, uncompacted |-> unc]
              [] h.t = "set" ->
                   Replay(Tail(d),
                          IndexInsert(idx, h.key, Pointer(initial_offset, new_offset)),
                          IF h.key \in DOMAIN idx THEN unc + idx[h.key].len ELSE unc,
                          new_offset, new_offset)
              [] h.t = "rm" ->
                   Replay(Tail(d),
                          IndexRemove(idx, h.key),
                          IF h.key \in DOMAIN idx THEN unc + (new_offset - initial_offset) ELSE unc,
                          new_offset, new_offset)

\* a slip: the loop stops at a record it cannot decode instead of returning
\* the error (while let Some(Ok(command)) = stream.next())
read_file_lenient(d) == [Replay(d, NoIndex, 0, 0, 0) EXCEPT !.ok = TRUE]

read_file(d) == Replay(d, NoIndex, 0, 0, 0)

\* what KvStore::get returns for key, with the Index idx and the reader on a
\* file holding data
GetIn(data, idx, key) ==
    IF key \in DOMAIN idx
    THEN LET cmd == from_reader(ReadRange(data, idx[key].pos, idx[key].len)) IN
         CASE cmd.t = "set" -> [res |-> "Ok", val |-> <<cmd.val>>]
           [] cmd.t = "rm" -> [res |-> "KeyNotFound", val |-> <<>>]
           [] OTHER -> [res |-> "Serialization", val |-> <<>>]
    ELSE [res |-> "Ok", val |-> <<>>]

\* what KvStore::get returns for key in the current state
GetResult(key) == GetIn(HandleData, index, key)

\* the bytes compact() copies for the first j keys of the index, in key order
RECURSIVE CopyFrom(_, _)
CopyFrom(i, j) ==
    IF i > Len(KeyOrder) \/ j = 0 THEN <<>>
    ELSE IF KeyOrder[i] \in DOMAIN index
         THEN ReadRange(HandleData, index[KeyOrder[i]].pos, index[KeyOrder[i]].len)
              \o CopyFrom(i + 1, j - 1)
         ELSE CopyFrom(i + 1, j)

Copied(j) == CopyFrom(1, j)

----------------------------------------------------------------------------
(* Operations *)

\* the bound on client calls
MaxCalls == 3

\* the messages a server answers an Err with
Messages == {"Key not found", "io"}

\* common::Request
Request(type, key, value) == [type |-> type, key |-> key, value |-> value]

Requests ==
    {Request("Get", k, <<>>) : k \in Keys}
        \cup {Request("Set", k, <<v>>) : k \in Keys, v \in Values}
        \cup {Request("Remove", k, <<>>) : k \in Keys}

NoRequest == Request("", "", <<>>)

\* common::GetResponse, SetResponse, RemoveResponse: Ok(body) or Err(message);
\* re is not on the wire: it records the request the server answered
Response(tag, body, re) == [tag |-> tag, body |-> body, re |-> re]

\* the responses a server may give to a request
ResponsesTo(req) ==
    {Response("Err", <<m>>, req) : m \in Messages}
        \cup {Response("Ok", <<>>, req)}
        \cup IF req.type = "Get" THEN {Response("Ok", <<v>>, req) : v \in Values} ELSE {}

\* what a client call returns: Ok with the value of a get (<<>> is None or
\* unit), MyError::StringError with the message, or the error of a failed `?`
Return(res, val) == [res |-> res, val |-> val]

NoReturn == Return("", <<>>)

\* the match on the response, by the type of the call
FromResponse(req, resp) ==
    IF resp.tag = "Err" THEN Return("StringError", resp.body)
    ELSE IF req.type = "Get" THEN Return("Ok", resp.body)
    ELSE Return("Ok", <<>>)

Init ==
    /\ pc = "idle"
    /\ log = File(<<>>)
    /\ tmp = NoFile
    /\ orphan = <<>>
    /\ bound = "path"
    /\ index = NoIndex
    /\ uncompacted = 0
    /\ wbuf = <<>>
    /\ ret = Call("open", "", <<>>, "Ok", FALSE)
    /\ lastSet = NoSets
    /\ hist = NoHist
    /\ nops = 0
    /\ faults = 0
    /\ cpc = "idle"
    /\ conn = "open"
    /\ cbuf = <<>>
    /\ c2s = <<>>
    /\ s2c = <<>>
    /\ creq = NoRequest
    /\ cret = NoReturn
    /\ ncalls = 0

\* KvStore::open on the store directory
Open ==
    /\ pc = "closed"
    /\ LET file == IF log.exists THEN log ELSE File(<<>>)
           kv == read_file(file.data)
       IN /\ log' = file
          /\ IF kv.ok
             THEN /\ pc' = "idle"
                  /\ index' = kv.index
                  /\ uncompacted' = kv.uncompacted
                  /\ ret' = Call("open", "", <<>>, "Ok", FALSE)
             ELSE /\ pc' = "closed"
                  /\ UNCHANGED <<index, uncompacted>>
                  /\ ret' = Call("open", "", <<>>, "Serialization", FALSE)
    /\ UNCHANGED <<tmp, orphan, bound, wbuf, lastSet, hist, nops, faults>>

\* the engine is dropped: its handles are released, and with them the
\* unlinked file they held
Release ==
    /\ pc' = "closed"
    /\ index' = NoIndex
    /\ uncompacted' = 0
    /\ orphan' = <<>>
    /\ bound' = "path"
    /\ wbuf' = <<>>
    /\ lastSet' = NoSets
    /\ ret' = NoCall
    /\ UNCHANGED <<tmp, hist, nops>>

Drop ==
    /\ Release
    /\ UNCHANGED log

Close ==
    /\ pc = "idle"
    /\ Drop
    /\ UNCHANGED faults

\* the process dies inside compact()
Crash ==
    /\ InCompaction
    /\ faults < MaxFaults
    /\ faults' = faults + 1
    /\ Drop

\* the process dies while the flush of line 53 writes the record of a set:
\* the first n bytes of "\r\n" + record have reached the file the writer holds,
\* the cut falling inside the record (after its first byte, before its last)
CrashInAppend(key, value) ==
    /\ pc = "idle"
    /\ faults < MaxFaults
    /\ faults' = faults + 1
    /\ LET tokens == <<CRLF, to_writer(SetCmd(key, value))>> IN
       \E n \in {CRLF.n + 1, ByteLen(tokens) - 1} :
           log' = IF bound = "path"
                  THEN File(log.data \o ReadRange(tokens, 0, n))
                  ELSE log
    /\ Release

\* the append made by a set or remove reaches the file the writer holds
AppendLog(tokens) ==
    IF bound = "path"
    THEN /\ log' = File(log.data \o tokens)
         /\ UNCHANGED orphan
    ELSE /\ orphan' = orphan \o tokens
         /\ UNCHANGED log

\* a slip: the threshold itself already triggers compaction
AtOrOverThreshold(new_offset) == new_offset >= COMPACT_BYTES

\* line 62: the test that runs compact()
OverThreshold(new_offset) == new_offset > COMPACT_BYTES

\* KvStore::set, up to the threshold test
Set(key, value) ==
    /\ pc = "idle"
    /\ nops < MaxOps
    /\ \/ \* the seek of line 50 fails
          /\ faults < MaxFaults
          /\ faults' = faults + 1
          /\ ret' = Call("set", key, <<value>>, "Io", FALSE)
          /\ UNCHANGED <<pc, log, tmp, orphan, bound, index, uncompacted, wbuf,
                         lastSet, hist, nops>>
       \/ LET initial_offset == ByteLen(HandleData)
              tokens == <<CRLF, to_writer(SetCmd(key, value))>>
              new_offset == initial_offset + ByteLen(tokens)
          IN /\ AppendLog(tokens)
             /\ index' = IndexInsert(index, key, Pointer(initial_offset, new_offset))
             /\ uncompacted' = IF key \in DOMAIN index
                               THEN uncompacted + index[key].len
                               ELSE uncompacted
             /\ nops' = nops + 1
             /\ IF OverThreshold(new_offset)
                THEN /\ pc' = "compact_create"
                     /\ ret' = Call("set", key, <<value>>, "running", TRUE)
                     /\ lastSet' = [lastSet EXCEPT ![key] = <<>>]
                     /\ hist' = [hist EXCEPT ![key] = <<"unknown">>]
                ELSE /\ pc' = "idle"
                     /\ ret' = Call("set", key, <<value>>, "Ok", FALSE)
                     /\ lastSet' = [lastSet EXCEPT ![key] = <<value>>]
                     /\ hist' = [hist EXCEPT ![key] = <<"set", value>>]
             /\ UNCHANGED <<tmp, bound, wbuf, faults>>

\* a slip: the entry is taken out of the Index (index.remove) to be read
GetTakesEntry(key) ==
    /\ pc = "idle"
    /\ LET r == GetResult(key) IN ret' = Call("get", key, r.val, r.res, FALSE)
    /\ index' = IndexRemove(index, key)
    /\ UNCHANGED <<pc, log, tmp, orphan, bound, uncompacted, wbuf,
                   lastSet, hist, nops, faults>>

\* KvStore::get
Get(key) ==
    /\ pc = "idle"
    /\ LET r == GetResult(key) IN ret' = Call("get", key, r.val, r.res, FALSE)
    /\ UNCHANGED <<pc, log, tmp, orphan, bound, index, uncompacted, wbuf,
                   lastSet, hist, nops, faults>>

\* a slip: the Remove record is written before the index is consulted
RemoveWritesFirst(key) ==
    /\ pc = "idle"
    /\ nops < MaxOps
    /\ nops' = nops + 1
    /\ AppendLog(<<to_writer(RemoveCmd(key)), CRLF>>)
    /\ IF key \in DOMAIN index
       THEN /\ index' = IndexRemove(index, key)
            /\ ret' = Call("remove", key, <<>>, "Ok", FALSE)
            /\ lastSet' = [lastSet EXCEPT ![key] = <<>>]
            /\ hist' = [hist EXCEPT ![key] = <<"rm">>]
       ELSE /\ ret' = Call("remove", key, <<>>, "KeyNotFound", FALSE)
            /\ UNCHANGED <<index, lastSet, hist>>
    /\ UNCHANGED <<pc, tmp, bound, uncompacted, wbuf, faults>>

\* KvStore::remove
Remove(key) ==
    /\ pc = "idle"
    /\ IF key \in DOMAIN index
       THEN /\ nops < MaxOps
            /\ nops' = nops + 1
            /\ index' = IndexRemove(index, key)
            /\ AppendLog(<<to_writer(RemoveCmd(key)), CRLF>>)
            /\ ret' = Call("remove", key, <<>>, "Ok", FALSE)
            /\ lastSet' = [lastSet EXCEPT ![key] = <<>>]
            /\ hist' = [hist EXCEPT ![key] = <<"rm">>]
       ELSE /\ ret' = Call("remove", key, <<>>, "KeyNotFound", FALSE)
            /\ UNCHANGED <<log, orphan, index, lastSet, hist, nops>>
    /\ UNCHANGED <<pc, tmp, bound, uncompacted, wbuf, faults>>

----------------------------------------------------------------------------
(* KvStore::compact, statement by statement, inside set *)

\* compact() returns Err through `?`, and set returns it
CompactErr ==
    /\ pc' = "idle"
    /\ ret' = [ret EXCEPT !.res = "Io"]
    /\ wbuf' = <<>>

Fault ==
    /\ faults < MaxFaults
    /\ faults' = faults + 1

\* line 174: open the temp file with write + create (no truncate)
CompactCreate ==
    /\ pc = "compact_create"
    /\ \/ /\ tmp' = IF tmp.exists THEN tmp ELSE File(<<>>)
          /\ wbuf' = <<>>
          /\ pc' = "compact_copy"
          /\ UNCHANGED <<ret, faults>>
       \/ /\ Fault
          /\ CompactErr
          /\ UNCHANGED tmp
    /\ UNCHANGED <<log, orphan, bound, index, uncompacted, lastSet, hist, nops>>

\* lines 177-182: copy every indexed range from self.reader into the buffered
\* temp writer; on a read error the writer is dropped, which writes out what
\* it buffered
CompactCopy ==
    /\ pc = "compact_copy"
    /\ \/ /\ wbuf' = Copied(Cardinality(DOMAIN index))
          /\ pc' = "compact_flush"
          /\ UNCHANGED <<tmp, ret, faults>>
       \/ /\ Fault
          /\ CompactErr
          /\ \E j \in 0 .. Cardinality(DOMAIN index) - 1 :
                tmp' = File(Overwrite(tmp.data, Copied(j)))
    /\ UNCHANGED <<log, orphan, bound, index, uncompacted, lastSet, hist, nops>>

\* line 183: flush the temp writer; a failed flush leaves a prefix written
CompactFlush ==
    /\ pc = "compact_flush"
    /\ \/ /\ tmp' = File(Overwrite(tmp.data, wbuf))
          /\ wbuf' = <<>>
          /\ pc' = "compact_remove"
          /\ UNCHANGED <<ret, faults>>
       \/ /\ Fault
          /\ CompactErr
          /\ \E j \in 0 .. Len(wbuf) :
                tmp' = File(Overwrite(tmp.data, SubSeq(wbuf, 1, j)))
    /\ UNCHANGED <<log, orphan, bound, index, uncompacted, lastSet, hist, nops>>

\* line 188: remove_file(&self.path); the handles keep the unlinked file
CompactRemove ==
    /\ pc = "compact_remove"
    /\ \/ /\ log.exists
          /\ log' = NoFile
          /\ orphan' = HandleData
          /\ bound' = "orphan"
          /\ pc' = "compact_rename"
          /\ UNCHANGED <<ret, wbuf, faults>>
       \/ \* NotFound: there is no file at self.path
          /\ ~log.exists
          /\ CompactErr
          /\ UNCHANGED <<log, orphan, bound, faults>>
       \/ /\ log.exists
          /\ Fault
          /\ CompactErr
          /\ UNCHANGED <<log, orphan, bound>>
    /\ UNCHANGED <<tmp, index, uncompacted, lastSet, hist, nops>>

\* a slip: the handles are rebound to the new file (lines 185-186 restored)
\* while the Index keeps the offsets of the old one
CompactRenameRebinds ==
    /\ pc = "compact_rename"
    /\ \/ /\ log' = tmp
          /\ tmp' = NoFile
          /\ bound' = "path"
          /\ orphan' = <<>>
          /\ uncompacted' = 0
          /\ pc' = "idle"
          /\ ret' = [ret EXCEPT !.res = "Ok"]
          /\ lastSet' = [lastSet EXCEPT ![ret.key] = ret.val]
          /\ hist' = [hist EXCEPT ![ret.key] = <<"set", ret.val[1]>>]
          /\ UNCHANGED <<wbuf, faults>>
       \/ /\ Fault
          /\ CompactErr
          /\ UNCHANGED <<log, tmp, uncompacted, lastSet, hist, orphan, bound>>
    /\ UNCHANGED <<index, nops>>

\* lines 189-192: rename the temp file to self.path, reset uncompacted, Ok
CompactRename ==
    /\ pc = "compact_rename"
    /\ \/ /\ log' = tmp
          /\ tmp' = NoFile
          /\ uncompacted' = 0
          /\ pc' = "idle"
          /\ ret' = [ret EXCEPT !.res = "Ok"]
          /\ lastSet' = [lastSet EXCEPT ![ret.key] = ret.val]
          /\ hist' = [hist EXCEPT ![ret.key] = <<"set", ret.val[1]>>]
          /\ UNCHANGED <<wbuf, faults>>
       \/ /\ Fault
          /\ CompactErr
          /\ UNCHANGED <<log, tmp, uncompacted, lastSet, hist>>
    /\ UNCHANGED <<orphan, bound, index, nops>>

Next ==
    \/ Open /\ UNCHANGED cvars
    \/ Close /\ UNCHANGED cvars
    \/ Crash /\ UNCHANGED cvars
    \/ \E k \in Keys, v \in Values : CrashInAppend(k, v) /\ UNCHANGED cvars
    \/ \E k \in Keys, v \in Values : Set(k, v) /\ UNCHANGED cvars
    \/ \E k \in Keys : Get(k) /\ UNCHANGED cvars
    \/ \E k \in Keys : Remove(k) /\ UNCHANGED cvars
    \/ CompactCreate /\ UNCHANGED cvars
    \/ CompactCopy /\ UNCHANGED cvars
    \/ CompactFlush /\ UNCHANGED cvars
    \/ CompactRemove /\ UNCHANGED cvars
    \/ CompactRename /\ UNCHANGED cvars

Spec == Init /\ [][Next]_vars

\* one engine instance on a store that was empty when it was opened: the
\* calls of KvsEngine and the statements of compact(), no restart
RunNext ==
    \/ \E k \in Keys, v \in Values : Set(k, v) /\ UNCHANGED cvars
    \/ \E k \in Keys : Get(k) /\ UNCHANGED cvars
    \/ \E k \in Keys : Remove(k) /\ UNCHANGED cvars
    \/ CompactCreate /\ UNCHANGED cvars
    \/ CompactCopy /\ UNCHANGED cvars
    \/ CompactFlush /\ UNCHANGED cvars
    \/ CompactRemove /\ UNCHANGED cvars
    \/ CompactRename /\ UNCHANGED cvars

SpecRun == Init /\ [][RunNext]_vars

----------------------------------------------------------------------------
(* KvsClient *)

\* serde_json::to_writer(&mut self.writer, &Request::...): the request goes
\* into the BufWriter (requests are far smaller than its 8 KiB)
KvsClientWrite(req) ==
    /\ cpc = "idle"
    /\ ncalls < MaxCalls
    /\ ncalls' = ncalls + 1
    /\ creq' = req
    /\ cbuf' = Append(cbuf, req)
    /\ cpc' = "flush"
    /\ UNCHANGED <<conn, c2s, s2c, cret>>
    /\ UNCHANGED evars

\* a slip: the call returns once the request is flushed, without reading
KvsClientFlushReturns ==
    /\ cpc = "flush"
    /\ \/ /\ conn = "open"
          /\ c2s' = c2s \o cbuf
          /\ cbuf' = <<>>
          /\ cpc' = "idle"
          /\ cret' = Return("Ok", <<>>)
       \/ /\ conn = "broken"
          /\ cpc' = "idle"
          /\ cret' = Return("Io", <<>>)
          /\ UNCHANGED <<cbuf, c2s>>
    /\ UNCHANGED <<conn, s2c, creq, ncalls>>
    /\ UNCHANGED evars

\* self.writer.flush()?: the buffered bytes go on the wire; on a broken
\* connection the write fails and the bytes stay buffered, or the kernel
\* takes them and they are lost
KvsClientFlush ==
    /\ cpc = "flush"
    /\ \/ /\ conn = "open"
          /\ c2s' = c2s \o cbuf
          /\ cbuf' = <<>>
          /\ cpc' = "read"
          /\ UNCHANGED cret
       \/ /\ conn = "broken"
          /\ cbuf' = <<>>
          /\ cpc' = "read"
          /\ UNCHANGED <<c2s, cret>>
       \/ /\ conn = "broken"
          /\ cpc' = "idle"
          /\ cret' = Return("Io", <<>>)
          /\ UNCHANGED <<cbuf, c2s>>
    /\ UNCHANGED <<conn, s2c, creq, ncalls>>
    /\ UNCHANGED evars

\* ...Response::deserialize(&mut self.reader)? and the match: blocks until
\* one response can be read off the stream; end of stream is an error
KvsClientRead ==
    /\ cpc = "read"
    /\ \/ /\ s2c # <<>>
          /\ cret' = FromResponse(creq, Head(s2c))
          /\ s2c' = Tail(s2c)
       \/ /\ s2c = <<>>
          /\ conn = "broken"
          /\ cret' = Return("Io", <<>>)
          /\ UNCHANGED s2c
    /\ cpc' = "idle"
    /\ UNCHANGED <<conn, cbuf, c2s, creq, ncalls>>
    /\ UNCHANGED evars

\* the server reads one request and writes its response
Serve ==
    /\ conn = "open"
    /\ c2s # <<>>
    /\ \E resp \in ResponsesTo(Head(c2s)) : s2c' = Append(s2c, resp)
    /\ c2s' = Tail(c2s)
    /\ UNCHANGED <<cpc, conn, cbuf, creq, cret, ncalls>>
    /\ UNCHANGED evars

\* the connection is lost: what was not delivered is gone, what the client
\* has not read yet may be gone
Disconnect ==
    /\ conn = "open"
    /\ conn' = "broken"
    /\ c2s' = <<>>
    /\ s2c' \in {s2c, <<>>}
    /\ UNCHANGED <<cpc, cbuf, creq, cret, ncalls>>
    /\ UNCHANGED evars

ClientNext ==
    \/ \E req \in Requests : KvsClientWrite(req)
    \/ KvsClientFlush
    \/ KvsClientRead
    \/ Serve
    \/ Disconnect

ClientSpec == Init /\ [][ClientNext]_vars

----------------------------------------------------------------------------
(* Claims *)

None == [res |-> "Ok", val |-> <<>>]
Some(v) == [res |-> "Ok", val |-> <<v>>]

\* C1: after set(k, v) returned Ok, and until the next set or remove of k on
\* the engine, get(k) returns Ok(Some(v)), compactions included.
C1_SetThenGet ==
    pc = "idle" =>
        \A k \in Keys : lastSet[k] # <<>> => GetResult(k) = Some(lastSet[k][1])

\* a get, made after a compaction and after a later call, returned the value
\* of the last Ok set of its key
C1_Witness ==
    /\ pc = "idle"
    /\ bound = "orphan"
    /\ ret.op = "get"
    /\ lastSet[ret.key] # <<>>
    /\ ret.val = lastSet[ret.key]
    /\ ByteLen(HandleData) > index[ret.key].pos + index[ret.key].len

\* C2: get(k) returns Ok(None) for every key never set on the store and for
\* every key whose most recent successful mutation was a remove.
C2_AbsentKeysReadNone ==
    (pc = "idle" /\ faults = 0) =>
        \A k \in Keys : hist[k] \in {<<"never">>, <<"rm">>} => GetResult(k) = None

\* C3: remove(k) of a key that is not in the Index returns KeyNotFound,
\* appends nothing to the log and leaves the Index unchanged, so get(k) is
\* still None.
C3_RemoveMissing ==
    [][\A k \in Keys :
          (Remove(k) /\ k \notin DOMAIN index) =>
              /\ ret'.res = "KeyNotFound"
              /\ log' = log
              /\ orphan' = orphan
              /\ index' = index
              /\ uncompacted' = uncompacted
              /\ GetIn(HandleData', index', k) = None]_vars

\* remove of a missing key returned KeyNotFound on a store that holds records
C3_Witness ==
    /\ pc = "idle"
    /\ ret.op = "remove"
    /\ ret.res = "KeyNotFound"
    /\ ret.key \notin DOMAIN index
    /\ HandleData # <<>>

\* what get(k) returns on a fresh store after replaying the successful calls
Replayed(k) == IF hist[k][1] = "set" THEN Some(hist[k][2]) ELSE None

\* C4: after closing and reopening, get(k) returns for every key what the
\* replay of the successful set/remove calls on a fresh store returns.
C4_RecoveryFaithful ==
    (pc = "idle" /\ ret.op = "open" /\ ret.res = "Ok" /\ faults = 0) =>
        \A k \in Keys : GetResult(k) = Replayed(k)

\* C5: no statement of compact() changes what get returns for any key: live
\* keys keep their value, other keys stay absent.
C5_CompactionPreservesGets ==
    [][(InCompaction /\ pc' # "closed") =>
          \A k \in Keys : GetIn(HandleData', index', k) = GetResult(k)]_vars

\* a compaction that dropped dead bytes has completed with two live keys
C5_Witness ==
    /\ pc = "idle"
    /\ ret.op = "set" /\ ret.compact /\ ret.res = "Ok"
    /\ DOMAIN index = Keys
    /\ log.exists
    /\ ByteLen(log.data) < ByteLen(HandleData)
    /\ \A k \in Keys : GetResult(k).val # <<>>

\* C6: the file a compaction puts at the store path (the temp file, when
\* remove_file is about to run) is not larger than the file at that path
\* before the compaction.
C6_CompactionDoesNotGrowLog ==
    (pc = "compact_remove" /\ faults = 0 /\ log.exists) =>
        ByteLen(tmp.data) <= ByteLen(log.data)

\* C7: every Pointer of the Index names a byte range of the file at the
\* store path that decodes to a Set command of the same key.
C7_PointersResolveInLog ==
    (pc = "idle" /\ faults = 0) =>
        \A k \in DOMAIN index :
            /\ log.exists
            /\ LET cmd == from_reader(ReadRange(log.data, index[k].pos, index[k].len))
               IN cmd.t = "set" /\ cmd.key = k

\* C8: when compact() fails, the log still exists at the store path and
\* reopening it recovers every key that was live.
C8_FailedCompactionKeepsLog ==
    (pc = "idle" /\ ret.op = "set" /\ ret.compact /\ ret.res = "Io") =>
        /\ log.exists
        /\ \A k \in DOMAIN index : k \in DOMAIN read_file(log.data).index

\* C9: at every statement of compact() a file exists at the store's log path.
C9_LogPathAlwaysExists ==
    (InCompaction /\ faults = 0) => log.exists

\* a set can return Ok from this state: its append stays within the
\* threshold, or compact()'s remove_file finds a file at the store path
SetCanReturnOk ==
    \E k \in Keys, v \in Values :
        \/ ByteLen(HandleData) + ByteLen(<<CRLF, to_writer(SetCmd(k, v))>>) <= COMPACT_BYTES
        \/ log.exists

\* C10: after a call returned Err the engine stays usable: a later set on it
\* can still return Ok.
C10_ErrLeavesEngineUsable ==
    (pc = "idle" /\ ret.res # "Ok") => SetCanReturnOk

\* the bytes at the end of d that follow its last whole record
RECURSIVE LastRecord(_)
LastRecord(d) ==
    IF d = <<>> THEN Junk(0)
    ELSE IF d[Len(d)].t = "ws" THEN LastRecord(SubSeq(d, 1, Len(d) - 1))
    ELSE d[Len(d)]

\* C11: after a compaction the handles are bound to the file at the store's
\* log path: the record of a later remove is written to that file.
C11_AppendsReachLogPath ==
    (pc = "idle" /\ faults = 0 /\ ret.op = "remove" /\ ret.res = "Ok") =>
        /\ log.exists
        /\ LastRecord(log.data) = to_writer(RemoveCmd(ret.key))

\* C12: a successful remove of a present key increases uncompacted by the
\* length of the Remove record it appended (with or without its line end).
C12_RemoveCountsDeadBytes ==
    [][\A k \in Keys :
          (Remove(k) /\ k \in DOMAIN index) =>
              \/ uncompacted' = uncompacted + to_writer(RemoveCmd(k)).n
              \/ uncompacted' = uncompacted + to_writer(RemoveCmd(k)).n + CRLF.n]_vars

\* C13: while no compaction was triggered, recovery of the log yields exactly
\* the Index (keys, offsets, lengths) and the uncompacted counter the running
\* engine holds after the same calls on an empty store.
C13_RecoveryMatchesRunningState ==
    (pc = "idle" /\ faults = 0 /\ ByteLen(HandleData) <= COMPACT_BYTES) =>
        read_file(log.data) = [ok |-> TRUE, index |-> index, uncompacted |-> uncompacted]

\* the same for the uncompacted counter alone
C13_RecoveredUncompacted ==
    (pc = "idle" /\ faults = 0 /\ ByteLen(HandleData) <= COMPACT_BYTES) =>
        read_file(log.data).uncompacted = uncompacted

\* the same for the Index alone
C13_RecoveredIndex ==
    (pc = "idle" /\ faults = 0 /\ ByteLen(HandleData) <= COMPACT_BYTES) =>
        read_file(log.data).index = index

\* the records of d, without the whitespace between them
Records(d) == SelectSeq(d, LAMBDA tok : tok.t # "ws")

\* one Set record for each key of the Index from KeyOrder[i] on, in key
\* order, holding the value get returns for the key
RECURSIVE LiveRecords(_)
LiveRecords(i) ==
    IF i > Len(KeyOrder) THEN <<>>
    ELSE IF KeyOrder[i] \in DOMAIN index /\ GetResult(KeyOrder[i]).val # <<>>
         THEN <<to_writer(SetCmd(KeyOrder[i], GetResult(KeyOrder[i]).val[1]))>>
              \o LiveRecords(i + 1)
         ELSE LiveRecords(i + 1)

\* a set has just returned Ok from a completed compaction
JustCompacted ==
    pc = "idle" /\ ret.op = "set" /\ ret.compact /\ ret.res = "Ok"

\* C14: immediately after a compaction the file at the store path consists
\* of exactly one Set record per key of the Index, in ascending key order,
\* and uncompacted is 0.
C14_CompactedLogHasNoDeadBytes ==
    JustCompacted =>
        /\ log.exists
        /\ Records(log.data) = LiveRecords(1)
        /\ uncompacted = 0

\* the same, for engines on which no call has failed
C14_WithoutFailures ==
    (JustCompacted /\ faults = 0) =>
        /\ log.exists
        /\ Records(log.data) = LiveRecords(1)
        /\ uncompacted = 0

TrailingPartial(d) == LastRecord(d).t = "junk" /\ LastRecord(d).n > 0

\* d consists of whole records and whitespace
WholeRecords(d) == \A i \in DOMAIN d : d[i].t # "junk"

\* C16: open fails with a Serialization error on a log that ends in a partial
\* record, and succeeds on a log of whole records (and whitespace).
C16_PartialTrailingRecord ==
    [][Open =>
          LET d == log.data IN
          /\ TrailingPartial(d) => (pc' = "closed" /\ ret'.res = "Serialization")
          /\ WholeRecords(d) => (pc' = "idle" /\ ret'.res = "Ok")]_vars

\* open has failed on a log whose only undecodable bytes are the record cut
\* short at its end, after whole records
C16_Witness ==
    /\ pc = "closed"
    /\ ret.op = "open" /\ ret.res = "Serialization"
    /\ TrailingPartial(log.data)
    /\ Len(Records(log.data)) > 1
    /\ WholeRecords(SubSeq(Records(log.data), 1, Len(Records(log.data)) - 1))

\* C17: once a set has run compact() on an engine instance, the end offset
\* seen by its writer is above COMPACT_BYTES and never decreases, so no later
\* set on the instance returns Ok without running compact() too.
C17_OnceCompactedAlwaysCompacts ==
    [][/\ pc' = "compact_create" => ByteLen(HandleData') > COMPACT_BYTES
       /\ (pc # "closed" /\ pc' # "closed") => ByteLen(HandleData') >= ByteLen(HandleData)
       /\ (pc = "idle" /\ ByteLen(HandleData) > COMPACT_BYTES) =>
              ~(pc' = "idle" /\ ret'.op = "set" /\ ret'.res = "Ok" /\ HandleData' # HandleData)]_vars

\* a set runs compact() on an instance on which an earlier compaction has
\* completed, although the file at the store path is within the threshold
C17_Witness ==
    /\ pc = "compact_create"
    /\ bound = "orphan"
    /\ log.exists
    /\ ByteLen(log.data) <= COMPACT_BYTES

\* C18: a set(k, v) that returns Err because compact() failed has applied
\* the write: get(k) on the same engine returns Some(v).
C18_FailedCompactionKeepsWrite ==
    (pc = "idle" /\ ret.op = "set" /\ ret.compact /\ ret.res = "Io") =>
        GetResult(ret.key) = Some(ret.val[1])

\* such a set has failed after it replaced an older value of its key
C18_Witness ==
    /\ pc = "idle"
    /\ ret.op = "set" /\ ret.compact /\ ret.res = "Io"
    /\ uncompacted > 0
    /\ GetResult(ret.key) = Some(ret.val[1])

\* C19: get changes neither the Index, nor the log (contents and size), nor
\* uncompacted, and a second get of the same key returns what the first did.
C19_GetIsReadOnly ==
    [][\A k \in Keys :
          Get(k) =>
              /\ index' = index
              /\ log' = log
              /\ orphan' = orphan
              /\ tmp' = tmp
              /\ uncompacted' = uncompacted
              /\ ret'.res = GetIn(HandleData', index', k).res
              /\ ret'.val = GetIn(HandleData', index', k).val]_vars

\* a get has returned a value on an engine that holds dead bytes, and the
\* next get of the key returns the same
C19_Witness ==
    /\ pc = "idle"
    /\ ret.op = "get" /\ ret.res = "Ok" /\ ret.val # <<>>
    /\ uncompacted > 0
    /\ GetResult(ret.key).val = ret.val

\* C20: a client call writes one request, flushes it and reads one response
\* before it returns: at most one request is outstanding, a request is sent
\* only when no request or response is in flight, the response a call
\* consumes answers its own request, and Err(message) comes back as an error
\* with that message, Ok as the value (get) or unit (set, remove).
C20_ClientRoundTrip ==
    [][/\ Len(c2s') + Len(s2c') <= 1
       /\ (cpc = "idle" /\ cpc' # "idle") => Len(cbuf') = Len(cbuf) + 1
       /\ (c2s' # c2s /\ c2s' # <<>>) =>
              /\ c2s = <<>> /\ s2c = <<>>
              /\ c2s' = <<creq>>
       /\ cpc' = "idle" => (c2s' = <<>> /\ s2c' = <<>>)
       /\ (cpc # "idle" /\ cpc' = "idle" /\ cret'.res # "Io") =>
              /\ cpc = "read"
              /\ s2c # <<>> /\ s2c' = Tail(s2c)
              /\ Head(s2c).re = creq
              /\ Head(s2c).tag = "Err" =>
                     cret' = Return("StringError", Head(s2c).body)
              /\ Head(s2c).tag = "Ok" =>
                     cret' = Return("Ok", IF creq.type = "Get"
                                          THEN Head(s2c).body ELSE <<>>)]_vars

\* a second call on the connection has returned the server's Err message
C20_Witness ==
    /\ cpc = "idle"
    /\ conn = "open"
    /\ ncalls >= 2
    /\ cret = Return("StringError", <<"Key not found">>)
    /\ c2s = <<>> /\ s2c = <<>>

====
